---- MODULE Spec2Model ----
(***************************************************************************)
(* Model of AltCraft's chunk section (src/src/world/Section.cpp): the      *)
(* construction of a pending section from raw buffers, Section::Parse      *)
(* (the decode) and Section::GetBlock (the lookup behind the decode gate). *)
(*                                                                         *)
(* Threads.  One decoding thread calls Parse (again and again, when its    *)
(* caller catches the exception); NumReaders reader threads call GetBlock. *)
(* Every statement that touches a member another thread reads is one       *)
(* atomic step.  GetBlock reads m_dataBlocks and m_blocks with no lock     *)
(* shared with Parse: such a read sees the value of the moment its step    *)
(* is taken, the old one or the new one as the interleaving decides.       *)
(* Reads outside a vector (blocks, m_palette, m_blocks) give an arbitrary  *)
(* value or, in Parse, end the process.                                    *)
(*                                                                         *)
(* Scale.  The section of the source is 16 x 16 x 16 voxels.  The model    *)
(* keeps every formula of the source and names its literals: Row (16, the  *)
(* voxels of a row and the rows of a layer), Layer (256 = 16 * 16), Volume *)
(* (4096 = 256 * 16 layers) and LightBytes (2048 = 4096 / 2).  Here a row  *)
(* has 2 voxels and a section 4 layers, so Volume is 16: the smallest      *)
(* section whose full 4-bit buffer is a whole number of 64-bit words.      *)
(* Bytes are 8 bits, unsigned short is 16 bits and a word is 8 bytes, as   *)
(* in the source.                                                          *)
(***************************************************************************)
EXTENDS Integers, Sequences, FiniteSets, TLC

\* ---------------------------------------------------------------- scale
Row == 2
Layers == 4
Layer == Row * Row
Volume == Layer * Layers
LightBytes == Volume \div 2
WordBytes == 8

\* ---------------------------------------------------------------- bounds
NumReaders == 2
MaxParseCalls == 2

Readers == 1..NumReaders

\* The null pointer: no byte buffer (a buffer holds bytes 0..255).
Null == <<-1>>

\* No voxel returned yet.
NoBlock == [id |-> -1, state |-> -1]

\* ------------------------------------------------------- integer helpers
RECURSIVE Pow2(_)
Pow2(n) == IF n <= 0 THEN 1 ELSE 2 * Pow2(n - 1)

U16 == Pow2(16)

\* x >> n on a non-negative value
Shr(x, n) == x \div Pow2(n)

\* x | 0x80 on a non-negative value
Or80(x) == IF (x \div 128) % 2 = 1 THEN x ELSE x + 128

\* x & 0xF and x & 0xF0 on a byte / unsigned short
AndF(x) == x % 16
AndF0(x) == (x % 256) - (x % 16)

Zeros(n) == [k \in 1..n |-> 0]

\* ------------------------------------------------------------ endswap
\* endswap(long long *) reverses the 8 bytes of a word: byte j (from 0) of the
\* swapped word is byte 7 - j of the word.
Endswap(j) == (WordBytes - 1) - j

\* Section.cpp:52-54  the first len / 8 words are swapped in place, the
\* len % 8 trailing bytes are left alone.
EndswapBuffer(data, len) ==
    [k \in 1..Len(data) |->
        LET w == (k - 1) \div WordBytes
        IN  IF w < len \div WordBytes
            THEN data[w * WordBytes + Endswap((k - 1) % WordBytes) + 1]
            ELSE data[k]]

\* ------------------------------------------------------ the bit unpacker
\* Section.cpp:59-72.  The loop visits the bits of the buffer in stream
\* order (byte by byte, and within a byte from bit 0 up, since the byte is
\* shifted right after each visit) and starts afresh (t = 0, bitPos = 0)
\* after every push, so that the e-th value pushed is computed from the bits
\* e*bpb .. e*bpb + bpb - 1 of the stream alone.

\* Section.cpp:61 and 63  m_dataBlocks[i] & 0x01 at the n-th visit
DataBit(data, n) == Shr(data[(n \div 8) + 1], n % 8) % 2

\* Section.cpp:61-62  t |= bit ? 0x80 : 0x00;  t >>= 1;  (t is unsigned short)
Accumulate(t, bit) == Shr((IF bit = 1 THEN Or80(t) ELSE t) % U16, 1)

\* t after the first cnt bits of the entry that starts at stream bit first
RECURSIVE EntryAcc(_, _, _)
EntryAcc(data, first, cnt) ==
    IF cnt <= 0 THEN 0
    ELSE Accumulate(EntryAcc(data, first, cnt - 1), DataBit(data, first + cnt - 1))

\* Section.cpp:65-69  bitPos >= m_bitsPerBlock:  t >>= m_bitsPerBlock - 1;  push_back(t)
UnpackEntry(data, e, bpb) == Shr(EntryAcc(data, e * bpb, bpb), bpb - 1) % U16

\* Section.cpp:55-72  the vector blocks the loop leaves: one value per bpb
\* bits visited, the incomplete last group dropped
UnpackBlocks(data, len, bpb) ==
    [e \in 1..((8 * len) \div bpb) |-> UnpackEntry(data, e - 1, bpb)]

\* ---------------------------------------------------- the light unpacker
\* Mutant of UnpackLight: the second value is the low nibble of the byte.
UnpackLightLowSecond(dataLight) ==
    [k \in 1..(2 * LightBytes) |->
        IF k % 2 = 1 THEN AndF0(dataLight[(k + 1) \div 2])
        ELSE AndF(dataLight[k \div 2])]

\* Section.cpp:76-82: two pushes per byte, t & 0b11110000 and t >> 4.
UnpackLight(dataLight) ==
    [k \in 1..(2 * LightBytes) |->
        IF k % 2 = 1 THEN AndF0(dataLight[(k + 1) \div 2])
        ELSE Shr(dataLight[k \div 2], 4)]

\* --------------------------------------------------------------- voxels
\* Block(blockId >> 4, blockId & 0xF), Section.cpp:85
MakeBlock(blockId) == [id |-> Shr(blockId, 4), state |-> AndF(blockId)]

\* Mutant of BlockIndex: x and z exchanged.
BlockIndexSwapped(pos) == pos.y * Layer + pos.x * Row + pos.z

\* pos.GetY() * 256 + pos.GetZ() * 16 + pos.GetX(), Section.cpp:45
BlockIndex(pos) == pos.y * Layer + pos.z * Row + pos.x

\* All local positions of a section
Positions == [x : 0..(Row - 1), y : 0..(Layers - 1), z : 0..(Row - 1)]

\* ------------------------------------------------ construction inputs
\* The sender's packing, the inverse of the bit unpacker: entry e occupies
\* the bits e*bpb .. e*bpb + bpb - 1 of the stream, lowest bit first, and bit
\* n of the stream is bit n % 8 of byte n \div 8.
StreamBit(vals, bpb, n) ==
    IF n \div bpb < Len(vals) THEN Shr(vals[(n \div bpb) + 1], n % bpb) % 2 ELSE 0

PackEntries(vals, bpb, len) ==
    [k \in 1..len |->
        StreamBit(vals, bpb, 8 * (k - 1)) + 2 * StreamBit(vals, bpb, 8 * (k - 1) + 1)
        + 4 * StreamBit(vals, bpb, 8 * (k - 1) + 2) + 8 * StreamBit(vals, bpb, 8 * (k - 1) + 3)
        + 16 * StreamBit(vals, bpb, 8 * (k - 1) + 4) + 32 * StreamBit(vals, bpb, 8 * (k - 1) + 5)
        + 64 * StreamBit(vals, bpb, 8 * (k - 1) + 6) + 128 * StreamBit(vals, bpb, 8 * (k - 1) + 7)]

\* The buffer as it arrives: whole words in network byte order.
WireBuffer(vals, bpb, len) == EndswapBuffer(PackEntries(vals, bpb, len), len)

\* Length in bytes of a buffer holding exactly Volume entries of bpb bits.
FullLen(bpb) == (Volume * bpb) \div 8

\* Entry sequences the inputs are built from.
Ramp(m) == [k \in 1..Volume |-> (k - 1) % m]
RampWithCorruptEntry == [Ramp(3) EXCEPT ![6] = 3]

\* Light buffers: 0xAB, 0xAC, ... and 0x0F, 0xF0 alternating.
LightA == [k \in 1..LightBytes |-> (171 + k - 1) % 256]
LightB == [k \in 1..LightBytes |-> IF k % 2 = 1 THEN 15 ELSE 240]

SpecPalette == <<10, 42, 7>>
WidePalette == <<16, 4660, 255>>

MkInput(p, vals, bpb, len, dl, ds, pal) ==
    [position |-> p, srcVals |-> vals, dataBlocks |-> WireBuffer(vals, bpb, len),
     dataBlocksLength |-> len, dataLight |-> dl, dataSky |-> ds,
     bitsPerBlock |-> bpb, palette |-> pal]

P0 == [x |-> 0, y |-> 0, z |-> 0]
P1 == [x |-> 1, y |-> 2, z |-> 3]
P2 == [x |-> Row - 1, y |-> Layers - 1, z |-> Row - 1]

\* The positions GetBlock is called with.
CallPositions == {P0, P2}

\* The constructor arguments the model starts from: full buffers with and
\* without a palette, a palette index out of range, a buffer one byte
\* short, a buffer one word long, and 5-bit entries with bits left over.
Inputs ==
    { MkInput(P0, Ramp(3), 4, FullLen(4), LightA, Null, SpecPalette),
      MkInput(P1, Ramp(16), 4, FullLen(4), LightB, LightA, <<>>),
      MkInput(P0, Ramp(3), 4, FullLen(4), LightA, LightB, WidePalette),
      MkInput(P1, RampWithCorruptEntry, 4, FullLen(4), LightA, Null, SpecPalette),
      MkInput(P0, Ramp(16), 4, FullLen(4) - 1, LightA, Null, <<>>),
      MkInput(P0, Ramp(16), 4, FullLen(4) + WordBytes, LightA, LightB, <<>>),
      MkInput(P1, Ramp(32), 5, FullLen(5) + 1, LightB, Null, <<>>) }

\* Values an out-of-bounds or uninitialised read of an unsigned short can give.
GarbageVals == {0, U16 - 1}

\* ----------------------------------------------------------------- state
VARIABLES
    input,        \* the constructor's arguments (never changes)
    section,      \* the members of the Section object
    pcD,          \* the decoding thread's position in Parse
    blocks,       \* Parse's local vector blocks
    light,        \* Parse's local vector light
    i,            \* Parse's loop index at line 83
    parseCalls,   \* number of Parse calls made
    outcome,      \* how the last Parse call ended
    entryBlocks,  \* m_blocks as the current / last Parse call found it
    oobPalette,   \* Parse has read m_palette outside [0, size)
    oobBlocks,    \* Parse has read blocks outside [0, size)
    pc,           \* each reader's position in GetBlock
    pos,          \* each reader's argument
    ret,          \* each reader's last returned voxel
    waiters,      \* readers blocked in parseWaiter.wait
    rt,           \* the round trip of the unpacker: entries, packed bytes, unpacked entries
    cp,           \* sections on the heap: copies, assignment, concurrent Parse calls
    ev            \* the event system: listeners, their queues and handlers, the callers

vars == <<input, section, pcD, blocks, light, i, parseCalls, outcome, entryBlocks,
          oobPalette, oobBlocks, pc, pos, ret, waiters, rt, cp, ev>>

decoderVars == <<pcD, blocks, light, i, parseCalls, outcome, entryBlocks, oobPalette, oobBlocks>>
readerVars == <<pc, pos, ret>>
sectionVars == <<input, section, decoderVars, readerVars, waiters>>

\* Section::Section(position, dataBlocks, dataBlocksLength, dataLight, dataSky,
\* bitsPerBlock, palette), Section.cpp:4-23.  Nothing is validated.
SectionCtor(position, dataBlocks, dataBlocksLength, dataLight, dataSky, bitsPerBlock, palette) ==
    [worldPosition |-> position,
     m_dataBlocksLen |-> dataBlocksLength,
     m_dataBlocks |-> SubSeq(dataBlocks, 1, dataBlocksLength),
     m_dataLight |-> SubSeq(dataLight, 1, LightBytes),
     m_dataSkyLight |-> IF dataSky # Null THEN SubSeq(dataSky, 1, LightBytes) ELSE Null,
     m_blocks |-> <<>>,
     m_palette |-> palette,
     m_bitsPerBlock |-> bitsPerBlock]

\* No section on the heap, no event system in use.
CpIdle == [stage |-> "idle"]
EvIdle == [stage |-> "idle"]

\* No round trip in progress.
RtIdle == [stage |-> "idle", bpb |-> 0, vals |-> <<>>, packed |-> <<>>, out |-> <<>>]

\* The state after constructing a section from the arguments in.
Constructed(in) ==
    /\ input = in
    /\ section = SectionCtor(in.position, in.dataBlocks, in.dataBlocksLength,
                             in.dataLight, in.dataSky, in.bitsPerBlock, in.palette)
    /\ pcD = "idle"
    /\ blocks = <<>>
    /\ light = <<>>
    /\ i = 0
    /\ parseCalls = 0
    /\ outcome = "none"
    /\ entryBlocks = <<>>
    /\ oobPalette = FALSE
    /\ oobBlocks = FALSE
    /\ pc = [r \in Readers |-> "idle"]
    /\ pos = [r \in Readers |-> P0]
    /\ ret = [r \in Readers |-> NoBlock]
    /\ waiters = {}

Init ==
    /\ \E in \in Inputs : Constructed(in)
    /\ rt = RtIdle
    /\ cp = CpIdle
    /\ ev = EvIdle

\* ------------------------------------------------------ Section::Parse
\* The decoding thread calls Parse(); its caller may have caught the
\* exception of an earlier call.
ParseCall ==
    /\ pcD = "idle"
    /\ parseCalls < MaxParseCalls
    /\ parseCalls' = parseCalls + 1
    /\ entryBlocks' = section.m_blocks
    /\ pcD' = "L49"
    /\ UNCHANGED <<rt, cp, ev, input, section, blocks, light, i, outcome, oobPalette, oobBlocks,
                   readerVars, waiters>>

\* Section.cpp:49  if (m_dataBlocks == nullptr)
AlreadyParsed(s) == s.m_dataBlocks = Null

\* Section.cpp:49-50  the early return of a decoded section
ParseCheck ==
    /\ pcD = "L49"
    /\ IF AlreadyParsed(section)
       THEN /\ pcD' = "idle"
            /\ outcome' = "noop"
       ELSE /\ pcD' = "L52"
            /\ UNCHANGED outcome
    /\ UNCHANGED <<rt, cp, ev, input, section, blocks, light, i, parseCalls, entryBlocks, oobPalette,
                   oobBlocks, readerVars, waiters>>

\* Section.cpp:52-54  the words of the buffer are byte-swapped in place
ParseEndswap ==
    /\ pcD = "L52"
    /\ section' = [section EXCEPT !.m_dataBlocks = EndswapBuffer(@, section.m_dataBlocksLen)]
    /\ pcD' = "L55"
    /\ UNCHANGED <<rt, cp, ev, input, blocks, light, i, parseCalls, outcome, entryBlocks, oobPalette,
                   oobBlocks, readerVars, waiters>>

\* Section.cpp:55-72  the bit unpacker; every byte of the buffer is shifted
\* right eight times, which leaves it 0
ParseUnpack ==
    /\ pcD = "L55"
    /\ blocks' = UnpackBlocks(section.m_dataBlocks, section.m_dataBlocksLen,
                              section.m_bitsPerBlock)
    /\ section' = [section EXCEPT !.m_dataBlocks = Zeros(section.m_dataBlocksLen)]
    /\ pcD' = "L74"
    /\ UNCHANGED <<rt, cp, ev, input, light, i, parseCalls, outcome, entryBlocks, oobPalette, oobBlocks,
                   readerVars, waiters>>

\* Section.cpp:74-82  the light unpacker
ParseLight ==
    /\ pcD = "L74"
    /\ light' = UnpackLight(section.m_dataLight)
    /\ i' = 0
    /\ pcD' = "L83"
    /\ UNCHANGED <<rt, cp, ev, input, section, blocks, parseCalls, outcome, entryBlocks, oobPalette,
                   oobBlocks, readerVars, waiters>>

\* Section.cpp:84  blocks[i]: inside the vector its element, past its size
\* (inside the reserved capacity) whatever the memory holds
ReadBlocks(b, k) == IF k < Len(b) THEN {b[k + 1]} ELSE GarbageVals

\* Section.cpp:84  m_palette.size() > 0 ? m_palette[idx] : idx; past the
\* palette's size the read gives whatever the memory holds
ResolvePalette(palette, idx) ==
    IF Len(palette) > 0
    THEN IF idx < Len(palette) THEN {palette[idx + 1]} ELSE GarbageVals
    ELSE {idx}

\* Section.cpp:83-87  one iteration of the loop that fills m_blocks; a read
\* outside a vector yields an arbitrary value or ends the process
ParsePush ==
    /\ pcD = "L83"
    /\ i < Volume
    /\ oobBlocks' = (oobBlocks \/ i >= Len(blocks))
    /\ \E idx \in ReadBlocks(blocks, i) :
         /\ oobPalette' = (oobPalette \/ (Len(section.m_palette) > 0 /\ idx >= Len(section.m_palette)))
         /\ \/ \E blockId \in ResolvePalette(section.m_palette, idx) :
                 /\ section' = [section EXCEPT !.m_blocks = Append(@, MakeBlock(blockId))]
                 /\ i' = i + 1
                 /\ UNCHANGED <<pcD, outcome>>
            \/ /\ (i >= Len(blocks) \/ (Len(section.m_palette) > 0 /\ idx >= Len(section.m_palette)))
               /\ pcD' = "crashed"
               /\ outcome' = "crashed"
               /\ UNCHANGED <<section, i>>
    /\ UNCHANGED <<rt, cp, ev, input, blocks, light, parseCalls, entryBlocks, readerVars, waiters>>

\* Section.cpp:83  the loop ends
ParsePushDone ==
    /\ pcD = "L83"
    /\ i >= Volume
    /\ pcD' = "L88"
    /\ UNCHANGED <<rt, cp, ev, input, section, blocks, light, i, parseCalls, outcome, entryBlocks,
                   oobPalette, oobBlocks, readerVars, waiters>>

\* Section.cpp:88  (light.size() + blocks.size()) / 2 != 4096
CountMismatch(l, b) == (Len(l) + Len(b)) \div 2 # Volume

\* Section.cpp:88-90  throw 118: the locals are destroyed, the members stay
ParseValidate ==
    /\ pcD = "L88"
    /\ IF CountMismatch(light, blocks)
       THEN /\ pcD' = "idle"
            /\ outcome' = "threw"
            /\ blocks' = <<>>
            /\ light' = <<>>
            /\ i' = 0
       ELSE /\ pcD' = "L91"
            /\ UNCHANGED <<outcome, blocks, light, i>>
    /\ UNCHANGED <<rt, cp, ev, input, section, parseCalls, entryBlocks, oobPalette, oobBlocks,
                   readerVars, waiters>>

\* Mutant of ReleaseBlocks: the buffer is freed and the pointer is not cleared.
ReleaseBlocksKeepPointer(s) == [s EXCEPT !.m_dataBlocksLen = 0]

\* Section.cpp:91-93
ReleaseBlocks(s) == [s EXCEPT !.m_dataBlocksLen = 0, !.m_dataBlocks = Null]

ParseReleaseBlocks ==
    /\ pcD = "L91"
    /\ section' = ReleaseBlocks(section)
    /\ pcD' = "L94"
    /\ UNCHANGED <<rt, cp, ev, input, blocks, light, i, parseCalls, outcome, entryBlocks, oobPalette,
                   oobBlocks, readerVars, waiters>>

\* Section.cpp:94-97
ReleaseLight(s) == [s EXCEPT !.m_dataLight = Null, !.m_dataSkyLight = Null]

ParseReleaseLight ==
    /\ pcD = "L94"
    /\ section' = ReleaseLight(section)
    /\ pcD' = "L99"
    /\ UNCHANGED <<rt, cp, ev, input, blocks, light, i, parseCalls, outcome, entryBlocks, oobPalette,
                   oobBlocks, readerVars, waiters>>

\* parseWaiter.notify_all(): the threads blocked in wait at this moment
NotifyAll(w) == w

\* Section.cpp:99-100  notify_all, then Parse returns
ParseNotify ==
    /\ pcD = "L99"
    /\ pc' = [r \in Readers |-> IF r \in NotifyAll(waiters) THEN "L40" ELSE pc[r]]
    /\ waiters' = waiters \ NotifyAll(waiters)
    /\ pcD' = "idle"
    /\ outcome' = "ok"
    /\ blocks' = <<>>
    /\ light' = <<>>
    /\ i' = 0
    /\ UNCHANGED <<rt, cp, ev, input, section, parseCalls, entryBlocks, oobPalette, oobBlocks,
                   pos, ret>>

\* --------------------------------------------------- Section::GetBlock
\* A read outside m_blocks gives whatever the memory holds.
GarbageBlocks == {MakeBlock(g) : g \in GarbageVals}

\* Reader r calls GetBlock(p).
GetBlockCall(r, p) ==
    /\ pcD # "crashed"
    /\ pc[r] = "idle"
    /\ pos' = [pos EXCEPT ![r] = p]
    /\ ret' = [ret EXCEPT ![r] = NoBlock]
    /\ pc' = [pc EXCEPT ![r] = "L36"]
    /\ UNCHANGED <<rt, cp, ev, input, section, decoderVars, waiters>>

\* Mutant of StillPending: pending as long as no voxel has been stored.
StillPendingOnBlocks(s) == Len(s.m_blocks) = 0

\* Section.cpp:36 and 40  m_dataBlocks != nullptr
StillPending(s) == s.m_dataBlocks # Null

\* Section.cpp:36  if (m_dataBlocks != nullptr)
GetBlockCheck(r) ==
    /\ pcD # "crashed"
    /\ pc[r] = "L36"
    /\ pc' = [pc EXCEPT ![r] = IF StillPending(section) THEN "L39" ELSE "L45"]
    /\ UNCHANGED <<rt, cp, ev, input, section, decoderVars, pos, ret, waiters>>

\* Section.cpp:37-39 and 41  parseWaiter.wait(parseLocker): the thread
\* releases the mutex of its own call (no other thread ever locks it) and
\* blocks on the condition variable until notify_all or a spurious wake-up
GetBlockWait(r) ==
    /\ pcD # "crashed"
    /\ pc[r] = "L39"
    /\ waiters' = waiters \cup {r}
    /\ pc' = [pc EXCEPT ![r] = "waiting"]
    /\ UNCHANGED <<rt, cp, ev, input, section, decoderVars, pos, ret>>

\* Section.cpp:40  while (m_dataBlocks != nullptr): back into wait (line 41)
\* or out of the loop (lines 43-45)
GetBlockLoop(r) ==
    /\ pcD # "crashed"
    /\ pc[r] = "L40"
    /\ pc' = [pc EXCEPT ![r] = IF StillPending(section) THEN "L39" ELSE "L45"]
    /\ UNCHANGED <<rt, cp, ev, input, section, decoderVars, pos, ret, waiters>>

\* std::condition_variable::wait may return without a notification.
SpuriousWake(r) ==
    /\ pcD # "crashed"
    /\ r \in waiters
    /\ waiters' = waiters \ {r}
    /\ pc' = [pc EXCEPT ![r] = "L40"]
    /\ UNCHANGED <<rt, cp, ev, input, section, decoderVars, pos, ret>>

\* Section.cpp:45  m_blocks[pos.GetY() * 256 + pos.GetZ() * 16 + pos.GetX()]
ReadVoxel(s, p) ==
    IF BlockIndex(p) < Len(s.m_blocks) THEN {s.m_blocks[BlockIndex(p) + 1]} ELSE GarbageBlocks

\* Section.cpp:45  return
GetBlockReturn(r) ==
    /\ pcD # "crashed"
    /\ pc[r] = "L45"
    /\ \E b \in ReadVoxel(section, pos[r]) : ret' = [ret EXCEPT ![r] = b]
    /\ pc' = [pc EXCEPT ![r] = "idle"]
    /\ UNCHANGED <<rt, cp, ev, input, section, decoderVars, pos, waiters>>

\* ----------------------------------------------------- specifications
ParseStep ==
    \/ ParseCheck
    \/ ParseEndswap
    \/ ParseUnpack
    \/ ParseLight
    \/ ParsePush
    \/ ParsePushDone
    \/ ParseValidate
    \/ ParseReleaseBlocks
    \/ ParseReleaseLight
    \/ ParseNotify

GetBlockStep(r) ==
    \/ GetBlockCheck(r)
    \/ GetBlockWait(r)
    \/ GetBlockLoop(r)
    \/ GetBlockReturn(r)

Next ==
    \/ ParseCall
    \/ ParseStep
    \/ \E r \in Readers : \E p \in CallPositions : GetBlockCall(r, p)
    \/ \E r \in Readers : GetBlockStep(r)
    \/ \E r \in Readers : SpuriousWake(r)

Spec == Init /\ [][Next]_vars

\* A thread inside a call keeps running: every step of Parse and of GetBlock
\* is weakly fair.  Nothing makes a caller call, and nothing makes a wait
\* return without a notification.
FairSpec ==
    /\ Spec
    /\ WF_vars(ParseStep)
    /\ \A r \in Readers : WF_vars(GetBlockStep(r))

\* ------------------------------------- the unpacker as a pure function
\* The widths of the round trip and, for each, entry sequences to pack.
RtWidths == {4, 5, 6, 8, 9, 12, 16}

RtVals(bpb) ==
    { Ramp(Pow2(bpb)),
      [k \in 1..Volume |-> 0],
      [k \in 1..Volume |-> Pow2(bpb) - 1],
      [k \in 1..Volume |-> IF k % 2 = 1 THEN Pow2(bpb) - 1 ELSE 0],
      [k \in 1..Volume |-> IF k = 1 THEN 1 ELSE 0],
      [k \in 1..Volume |-> Pow2(bpb - 1) + ((k - 1) % 2)] }

RtInit ==
    /\ Constructed(MkInput(P0, Ramp(3), 4, FullLen(4), LightA, Null, SpecPalette))
    /\ \E w \in RtWidths : \E v \in RtVals(w) :
         rt = [stage |-> "entries", bpb |-> w, vals |-> v, packed |-> <<>>, out |-> <<>>]
    /\ cp = CpIdle
    /\ ev = EvIdle

\* The entries are packed into FullLen(bpb) bytes.
RtPack ==
    /\ rt.stage = "entries"
    /\ rt' = [rt EXCEPT !.stage = "packed", !.packed = PackEntries(rt.vals, rt.bpb, FullLen(rt.bpb))]
    /\ UNCHANGED <<cp, ev, sectionVars>>

\* The loop of Section.cpp:55-72 runs on the packed bytes.
RtUnpack ==
    /\ rt.stage = "packed"
    /\ rt' = [rt EXCEPT !.stage = "unpacked", !.out = UnpackBlocks(rt.packed, Len(rt.packed), rt.bpb)]
    /\ UNCHANGED <<cp, ev, sectionVars>>

RtNext ==
    \/ RtPack
    \/ RtUnpack

SpecRoundTrip == RtInit /\ [][RtNext]_vars

\* ================================================= sections on the heap
\* The sections of this part live in a heap of byte buffers, so that two
\* sections can share a buffer, a buffer can be freed twice and a pointer can
\* dangle.  A pointer is the index of its buffer in the heap, NullPtr is
\* nullptr, and a freed buffer stays in the heap as Freed.  Reading a buffer
\* through nullptr or a dangling pointer gives arbitrary bytes or ends the
\* process.

NullPtr == 0
Freed == <<-2>>

\* new byte[n], then filled with bytes: the new buffer's address is the
\* length of the heap returned.  new byte[0] is a buffer of its own too.
New(h, bytes) == Append(h, bytes)

\* delete[] p; nothing happens for nullptr
Delete(h, p) == IF p = NullPtr THEN h ELSE [h EXCEPT ![p] = Freed]

\* delete[] p frees a buffer that is freed already
DoubleDelete(h, p) == p # NullPtr /\ h[p] = Freed

\* The n bytes at p can be read.
Readable(h, p, n) == n = 0 \/ (p # NullPtr /\ h[p] # Freed /\ Len(h[p]) >= n)

\* What n bytes of memory that is not the program's to read can hold.
GarbageBuffers(n) == {Zeros(n), [k \in 1..n |-> 255]}

\* The bytes std::copy(p, p + n, dst) stores in dst.
CopyBytes(h, p, n) ==
    IF Readable(h, p, n)
    THEN {IF n = 0 THEN <<>> ELSE SubSeq(h[p], 1, n)}
    ELSE GarbageBuffers(n)

\* Section::Section(position, dataBlocks, ...), Section.cpp:4-23, on the
\* heap h: the heap and the object it leaves.
HeapCtor(h, in) ==
    LET h1 == New(h, SubSeq(in.dataBlocks, 1, in.dataBlocksLength))
        h2 == New(h1, SubSeq(in.dataLight, 1, LightBytes))
        h3 == IF in.dataSky # Null THEN New(h2, SubSeq(in.dataSky, 1, LightBytes)) ELSE h2
    IN  [heap |-> h3,
         obj |-> [worldPosition |-> in.position,
                  m_dataBlocksLen |-> in.dataBlocksLength,
                  m_dataBlocks |-> Len(h1),
                  m_dataLight |-> Len(h2),
                  m_dataSkyLight |-> IF in.dataSky # Null THEN Len(h3) ELSE NullPtr,
                  m_blocks |-> <<>>,
                  m_palette |-> in.palette,
                  m_bitsPerBlock |-> in.bitsPerBlock]]

\* Section::Section(const Section &other), Section.cpp:118-134: bl, li and
\* sk are the bytes the three std::copy calls read.  m_blocks is not
\* mentioned and is default-constructed, empty.
CopyCtor(h, other, bl, li, sk) ==
    LET h1 == New(h, bl)
        h2 == New(h1, li)
        h3 == IF other.m_dataSkyLight # NullPtr THEN New(h2, sk) ELSE h2
    IN  [heap |-> h3,
         obj |-> [worldPosition |-> other.worldPosition,
                  m_dataBlocksLen |-> other.m_dataBlocksLen,
                  m_dataBlocks |-> Len(h1),
                  m_dataLight |-> Len(h2),
                  m_dataSkyLight |-> IF other.m_dataSkyLight # NullPtr THEN Len(h3) ELSE NullPtr,
                  m_blocks |-> <<>>,
                  m_palette |-> other.m_palette,
                  m_bitsPerBlock |-> other.m_bitsPerBlock]]

\* Section.cpp:122, 125 and 129: a std::copy of the copy constructor reads
\* through nullptr or a dangling pointer.
CopyFaults(h, other) ==
    \/ ~Readable(h, other.m_dataBlocks, other.m_dataBlocksLen)
    \/ ~Readable(h, other.m_dataLight, LightBytes)
    \/ (other.m_dataSkyLight # NullPtr /\ ~Readable(h, other.m_dataSkyLight, LightBytes))

\* Section::~Section(), Section.cpp:25-33: the heap it leaves.
Destructor(h, s) ==
    Delete(Delete(Delete(h, s.m_dataBlocks), s.m_dataLight), s.m_dataSkyLight)

\* Section.cpp:26, 29 and 31: a delete[] of the destructor frees a freed buffer.
DestructorFaults(h, s) ==
    \/ DoubleDelete(h, s.m_dataBlocks)
    \/ DoubleDelete(h, s.m_dataLight)
    \/ DoubleDelete(h, s.m_dataSkyLight)

\* ---------------------------------------------------------------- bounds
NumDecoders == 2
MaxHeapParseCalls == 2
StackFrames == 3

\* The threads that call Parse on the sections of the heap.
Decoders == 1..NumDecoders

\* A thread that is in no Parse call.
IdleThread == [pc |-> "idle", o |-> 0, blocks |-> <<>>, light |-> <<>>, junk |-> 0]

\* What the sections of the heap leave alone.
heapFrame == <<rt, ev, sectionVars>>

AllIdle == \A t \in Decoders : cp.thr[t].pc = "idle"

\* --------------------------------------- Section::Parse, thread by thread
\* Thread t calls Parse() on the live section o.
TParseCall(t, o) ==
    /\ cp.stage = "run"
    /\ cp.thr[t].pc = "idle"
    /\ cp.stack = <<>>
    /\ o \in 1..Len(cp.objs)
    /\ cp.alive[o]
    /\ cp.calls < MaxHeapParseCalls
    /\ cp' = [cp EXCEPT !.thr[t].pc = "L49", !.thr[t].o = o, !.calls = @ + 1]
    /\ UNCHANGED heapFrame

\* Section.cpp:49-50
TParseCheck(t) ==
    LET o == cp.thr[t].o
    IN  /\ cp.stage = "run"
        /\ cp.thr[t].pc = "L49"
        /\ IF cp.objs[o].m_dataBlocks = NullPtr
           THEN cp' = [cp EXCEPT !.thr[t] = IdleThread, !.outcome[o] = "noop"]
           ELSE cp' = [cp EXCEPT !.thr[t].pc = "L52", !.bodyRuns[o] = @ + 1]
        /\ UNCHANGED heapFrame

\* Section.cpp:52-54  endswap of the words of the buffer, in place
TParseEndswap(t) ==
    LET s == cp.objs[cp.thr[t].o]
    IN  /\ cp.stage = "run"
        /\ cp.thr[t].pc = "L52"
        /\ IF s.m_dataBlocksLen \div WordBytes = 0
           THEN cp' = [cp EXCEPT !.thr[t].pc = "L55"]
           ELSE IF Readable(cp.heap, s.m_dataBlocks, s.m_dataBlocksLen)
           THEN cp' = [cp EXCEPT !.thr[t].pc = "L55",
                                 !.heap[s.m_dataBlocks] = EndswapBuffer(@, s.m_dataBlocksLen)]
           ELSE \/ cp' = [cp EXCEPT !.thr[t].pc = "L55", !.faults = @ \cup {"useAfterFree"}]
                \/ cp' = [cp EXCEPT !.stage = "crashed", !.faults = @ \cup {"useAfterFree"}]
        /\ UNCHANGED heapFrame

\* Section.cpp:55-72  blocks.reserve(4096) and the bit unpacker; the bytes
\* it has read are left 0.  junk is what the memory holds that the call
\* reads outside its vectors: one value for the whole call.
TParseUnpack(t) ==
    LET s == cp.objs[cp.thr[t].o]
    IN  /\ cp.stage = "run"
        /\ cp.thr[t].pc = "L55"
        /\ \E g \in GarbageVals :
           IF Readable(cp.heap, s.m_dataBlocks, s.m_dataBlocksLen)
           THEN cp' = [cp EXCEPT
                         !.thr[t].pc = "L74",
                         !.thr[t].junk = g,
                         !.thr[t].blocks =
                             IF s.m_dataBlocksLen = 0 THEN <<>>
                             ELSE UnpackBlocks(cp.heap[s.m_dataBlocks], s.m_dataBlocksLen,
                                               s.m_bitsPerBlock),
                         !.heap = IF s.m_dataBlocksLen = 0 THEN @
                                  ELSE [@ EXCEPT ![s.m_dataBlocks] = Zeros(s.m_dataBlocksLen)]]
           ELSE \/ \E data \in GarbageBuffers(s.m_dataBlocksLen) :
                     cp' = [cp EXCEPT
                              !.thr[t].pc = "L74",
                              !.thr[t].junk = g,
                              !.thr[t].blocks = UnpackBlocks(data, s.m_dataBlocksLen,
                                                             s.m_bitsPerBlock),
                              !.faults = @ \cup {"useAfterFree"}]
                \/ cp' = [cp EXCEPT !.stage = "crashed", !.faults = @ \cup {"useAfterFree"}]
        /\ UNCHANGED heapFrame

\* Section.cpp:74-82  the light unpacker
TParseLight(t) ==
    LET s == cp.objs[cp.thr[t].o]
    IN  /\ cp.stage = "run"
        /\ cp.thr[t].pc = "L74"
        /\ \/ \E li \in CopyBytes(cp.heap, s.m_dataLight, LightBytes) :
                cp' = [cp EXCEPT
                         !.thr[t].pc = "L83",
                         !.thr[t].light = UnpackLight(li),
                         !.faults = IF Readable(cp.heap, s.m_dataLight, LightBytes)
                                    THEN @ ELSE @ \cup {"useAfterFree"}]
           \/ /\ ~Readable(cp.heap, s.m_dataLight, LightBytes)
              /\ cp' = [cp EXCEPT !.stage = "crashed", !.faults = @ \cup {"useAfterFree"}]
        /\ UNCHANGED heapFrame

\* Section.cpp:84  blocks[i], past the vector's size what the memory holds
ReadReserved(b, k, junk) == IF k < Len(b) THEN b[k + 1] ELSE junk

\* Section.cpp:84  m_palette.size() > 0 ? m_palette[idx] : idx
ResolveOrJunk(palette, idx, junk) ==
    IF Len(palette) > 0
    THEN IF idx < Len(palette) THEN palette[idx + 1] ELSE junk
    ELSE idx

\* Section.cpp:83-87  the voxels the loop appends to m_blocks
Voxels(palette, b, junk) ==
    [k \in 1..Volume |-> MakeBlock(ResolveOrJunk(palette, ReadReserved(b, k - 1, junk), junk))]

\* Section.cpp:84  some iteration of the loop reads outside blocks or m_palette
PushFaults(palette, b, junk) ==
    \/ Len(b) < Volume
    \/ /\ Len(palette) > 0
       /\ \E k \in 1..Volume : ReadReserved(b, k - 1, junk) >= Len(palette)

\* Section.cpp:83-87  the loop that fills m_blocks, as one step: these
\* sections have no reader.  When another thread is at the same loop on the
\* same section the two loops may overlap, a race on the vector itself.
TParsePush(t) ==
    LET o == cp.thr[t].o
        s == cp.objs[o]
        th == cp.thr[t]
        race == \E u \in Decoders : u # t /\ cp.thr[u].pc = "L83" /\ cp.thr[u].o = o
        oob == PushFaults(s.m_palette, th.blocks, th.junk)
        f == cp.faults \cup (IF oob THEN {"outOfBounds"} ELSE {})
                       \cup (IF race THEN {"vectorRace"} ELSE {})
    IN  /\ cp.stage = "run"
        /\ th.pc = "L83"
        /\ \/ cp' = [cp EXCEPT !.objs[o].m_blocks = @ \o Voxels(s.m_palette, th.blocks, th.junk),
                               !.thr[t].pc = "L88",
                               !.faults = f]
           \/ /\ (oob \/ race)
              /\ cp' = [cp EXCEPT !.stage = "crashed", !.faults = f]
        /\ UNCHANGED heapFrame

\* Section.cpp:88-90  throw 118, or on to the release of the buffers
TParseValidate(t) ==
    /\ cp.stage = "run"
    /\ cp.thr[t].pc = "L88"
    /\ IF CountMismatch(cp.thr[t].light, cp.thr[t].blocks)
       THEN cp' = [cp EXCEPT !.thr[t] = IdleThread, !.outcome[cp.thr[t].o] = "threw"]
       ELSE cp' = [cp EXCEPT !.thr[t].pc = "L91"]
    /\ UNCHANGED heapFrame

\* Section.cpp:91  delete[] m_dataBlocks
TParseDeleteBlocks(t) ==
    LET s == cp.objs[cp.thr[t].o]
    IN  /\ cp.stage = "run"
        /\ cp.thr[t].pc = "L91"
        /\ IF DoubleDelete(cp.heap, s.m_dataBlocks)
           THEN \/ cp' = [cp EXCEPT !.thr[t].pc = "L92", !.faults = @ \cup {"doubleDelete"}]
                \/ cp' = [cp EXCEPT !.stage = "crashed", !.faults = @ \cup {"doubleDelete"}]
           ELSE cp' = [cp EXCEPT !.thr[t].pc = "L92", !.heap = Delete(@, s.m_dataBlocks)]
        /\ UNCHANGED heapFrame

\* Section.cpp:92-93  m_dataBlocksLen = 0;  m_dataBlocks = nullptr
TParseNullBlocks(t) ==
    /\ cp.stage = "run"
    /\ cp.thr[t].pc = "L92"
    /\ cp' = [cp EXCEPT !.thr[t].pc = "L94",
                        !.objs[cp.thr[t].o].m_dataBlocksLen = 0,
                        !.objs[cp.thr[t].o].m_dataBlocks = NullPtr]
    /\ UNCHANGED heapFrame

\* Mutant of ClearLight: the palette is dropped with the raw buffers.
ClearLightAndPalette(s) ==
    [s EXCEPT !.m_dataLight = NullPtr, !.m_dataSkyLight = NullPtr, !.m_palette = <<>>]

\* Section.cpp:95 and 97  m_dataLight = nullptr;  m_dataSkyLight = nullptr
ClearLight(s) == [s EXCEPT !.m_dataLight = NullPtr, !.m_dataSkyLight = NullPtr]

\* Section.cpp:94-97  the light buffers are deleted and their pointers cleared
TParseReleaseLight(t) ==
    LET o == cp.thr[t].o
        s == cp.objs[o]
        twice == DoubleDelete(cp.heap, s.m_dataLight) \/ DoubleDelete(cp.heap, s.m_dataSkyLight)
        f == IF twice THEN cp.faults \cup {"doubleDelete"} ELSE cp.faults
    IN  /\ cp.stage = "run"
        /\ cp.thr[t].pc = "L94"
        /\ \/ cp' = [cp EXCEPT !.thr[t].pc = "L99",
                               !.heap = Delete(Delete(@, s.m_dataLight), s.m_dataSkyLight),
                               !.objs[o] = ClearLight(s),
                               !.faults = f]
           \/ /\ twice
              /\ cp' = [cp EXCEPT !.stage = "crashed", !.faults = f]
        /\ UNCHANGED heapFrame

\* Section.cpp:99-100  notify_all (no thread waits on these sections), return
TParseNotify(t) ==
    /\ cp.stage = "run"
    /\ cp.thr[t].pc = "L99"
    /\ cp' = [cp EXCEPT !.thr[t] = IdleThread, !.outcome[cp.thr[t].o] = "ok"]
    /\ UNCHANGED heapFrame

TParseStep(t) ==
    \/ TParseCheck(t)
    \/ TParseEndswap(t)
    \/ TParseUnpack(t)
    \/ TParseLight(t)
    \/ TParsePush(t)
    \/ TParseValidate(t)
    \/ TParseDeleteBlocks(t)
    \/ TParseNullBlocks(t)
    \/ TParseReleaseLight(t)
    \/ TParseNotify(t)

\* --------------------------------------- copies, destruction, assignment
\* The original section and its copy, by their places among the objects.
Orig == 1
Copy == 2

\* The results the copy constructor can have on heap h for the source other.
Copies(h, other) ==
    { CopyCtor(h, other, bl, li, sk) :
        bl \in CopyBytes(h, other.m_dataBlocks, other.m_dataBlocksLen),
        li \in CopyBytes(h, other.m_dataLight, LightBytes),
        sk \in IF other.m_dataSkyLight # NullPtr
               THEN CopyBytes(h, other.m_dataSkyLight, LightBytes) ELSE {<<>>} }

\* A constructed object joins the objects.
AddObject(c, r) ==
    [c EXCEPT !.heap = r.heap,
              !.objs = Append(@, r.obj),
              !.alive = Append(@, TRUE),
              !.outcome = Append(@, "none"),
              !.bodyRuns = Append(@, 0)]

\* The owner copy-constructs a section from the original: Section copy(orig).
CopyConstruct ==
    /\ cp.stage = "run"
    /\ AllIdle
    /\ cp.stack = <<>>
    /\ Len(cp.objs) = 1
    /\ cp.alive[Orig]
    /\ LET src == cp.objs[Orig]
           f == IF CopyFaults(cp.heap, src) THEN cp.faults \cup {"nullDeref"} ELSE cp.faults
       IN  \/ \E r \in Copies(cp.heap, src) :
                 cp' = [AddObject(cp, r) EXCEPT
                          !.copied = IF src.m_dataBlocks # NullPtr THEN "pending" ELSE "decoded",
                          !.faults = f]
           \/ /\ CopyFaults(cp.heap, src)
              /\ cp' = [cp EXCEPT !.stage = "crashed", !.faults = f]
    /\ UNCHANGED heapFrame

\* The owner destroys section o: Section::~Section(), Section.cpp:25-33.
Destroy(o) ==
    /\ cp.stage = "run"
    /\ AllIdle
    /\ cp.stack = <<>>
    /\ Len(cp.objs) = 2
    /\ o \in {Orig, Copy}
    /\ cp.alive[o]
    /\ LET s == cp.objs[o]
           f == IF DestructorFaults(cp.heap, s) THEN cp.faults \cup {"doubleDelete"} ELSE cp.faults
       IN  \/ cp' = [cp EXCEPT !.heap = Destructor(@, s),
                               !.alive[o] = FALSE,
                               !.objs[o].m_dataBlocksLen = 0,
                               !.objs[o].m_dataBlocks = NullPtr,
                               !.objs[o].m_dataLight = NullPtr,
                               !.objs[o].m_dataSkyLight = NullPtr,
                               !.faults = f]
           \/ /\ DestructorFaults(cp.heap, s)
              /\ cp' = [cp EXCEPT !.stage = "crashed", !.faults = f]
    /\ UNCHANGED heapFrame

\* Section::GetPosition(), Section.cpp:136-138
GetPosition(s) == s.worldPosition

\* No position returned yet.
NoPosition == [x |-> -1, y |-> -1, z |-> -1]

\* The decode state of section o: a Parse call is in progress on it, or it
\* holds its raw block buffer, or it does not.
DecodeState(c, o) ==
    IF \E t \in Decoders : c.thr[t].pc # "idle" /\ c.thr[t].o = o THEN "mid-decode"
    ELSE IF c.objs[o].m_dataBlocks # NullPtr THEN "pending"
    ELSE "decoded"

\* Some thread calls GetPosition() on the live section o, whatever the
\* decoding threads are doing; gotAt keeps the decode state of o at the call.
GetPositionCall(o) ==
    /\ cp.stage = "run"
    /\ o \in 1..Len(cp.objs)
    /\ cp.alive[o]
    /\ cp.stack = <<>>
    /\ cp.got = NoPosition
    /\ cp' = [cp EXCEPT !.got = GetPosition(cp.objs[o]), !.gotAt = DecodeState(cp, o)]
    /\ UNCHANGED heapFrame

\* Section::operator=(Section other), Section.cpp:102-105.  The parameter is
\* a Section by value, and the only assignment of a Section there is, so it
\* is copy-constructed at every call, from an lvalue and from std::move(x)
\* alike.  std::swap(*this, other) is the generic one (swap of lines 107-116
\* is not in namespace std): Section tmp(std::move(a));  a = std::move(b);
\* b = std::move(tmp);  and its first assignment is operator= again, on the
\* same left side.  A frame of the call stack is one call of operator=; no
\* frame ever gets past the assignment inside std::swap, so the statements
\* after it have no step here.
NoAssignment == [a |-> 0, b |-> 0]

\* The owner executes objs[a] = objs[b]: the argument is copied into the
\* parameter other and the body is entered.
AssignCall(a, b) ==
    /\ cp.stage = "run"
    /\ AllIdle
    /\ cp.stack = <<>>
    /\ cp.asg = NoAssignment
    /\ Len(cp.objs) = 2
    /\ a # b
    /\ cp.alive[a] /\ cp.alive[b]
    /\ LET src == cp.objs[b]
           f == IF CopyFaults(cp.heap, src) THEN cp.faults \cup {"nullDeref"} ELSE cp.faults
       IN  \/ \E r \in Copies(cp.heap, src) :
                 cp' = [AddObject(cp, r) EXCEPT
                          !.asg = [a |-> a, b |-> b],
                          !.stack = <<[self |-> a, other |-> Len(cp.objs) + 1, tmp |-> 0,
                                       pc |-> "L103"]>>,
                          !.faults = f]
           \/ /\ CopyFaults(cp.heap, src)
              /\ cp' = [cp EXCEPT !.stage = "crashed", !.asg = [a |-> a, b |-> b], !.faults = f]
    /\ UNCHANGED heapFrame

\* Section.cpp:103, inside std::swap:  Section tmp(std::move(*this))
SwapTmp ==
    /\ cp.stage = "run"
    /\ cp.stack # <<>>
    /\ LET d == Len(cp.stack)
           src == cp.objs[cp.stack[d].self]
           f == IF CopyFaults(cp.heap, src) THEN cp.faults \cup {"nullDeref"} ELSE cp.faults
       IN  /\ cp.stack[d].pc = "L103"
           /\ \/ \E r \in Copies(cp.heap, src) :
                    cp' = [AddObject(cp, r) EXCEPT
                             !.stack[d].tmp = Len(cp.objs) + 1,
                             !.stack[d].pc = "swap",
                             !.faults = f]
              \/ /\ CopyFaults(cp.heap, src)
                 /\ cp' = [cp EXCEPT !.stage = "crashed", !.faults = f]
    /\ UNCHANGED heapFrame

\* Section.cpp:103, inside std::swap:  *this = std::move(other), a call of
\* operator= whose parameter is copied from other.  The call needs a frame
\* of the stack; when the stack has none left the process ends.
SwapAssign ==
    /\ cp.stage = "run"
    /\ cp.stack # <<>>
    /\ LET d == Len(cp.stack)
           src == cp.objs[cp.stack[d].other]
           f == IF CopyFaults(cp.heap, src) THEN cp.faults \cup {"nullDeref"} ELSE cp.faults
       IN  /\ cp.stack[d].pc = "swap"
           /\ IF d >= StackFrames
              THEN cp' = [cp EXCEPT !.stage = "stackOverflow"]
              ELSE \/ \E r \in Copies(cp.heap, src) :
                         cp' = [AddObject(cp, r) EXCEPT
                                  !.stack = Append(@, [self |-> cp.stack[d].self,
                                                       other |-> Len(cp.objs) + 1,
                                                       tmp |-> 0, pc |-> "L103"]),
                                  !.faults = f]
                   \/ /\ CopyFaults(cp.heap, src)
                      /\ cp' = [cp EXCEPT !.stage = "crashed", !.faults = f]
    /\ UNCHANGED heapFrame

\* ---------------------------------------- the specification of the heap
\* The constructor arguments of the original section: a full buffer with a
\* palette and no sky light, a full buffer with sky light and no palette, a
\* palette index out of range, and a buffer one byte short.
HeapInputs ==
    { MkInput(P0, Ramp(3), 4, FullLen(4), LightA, Null, SpecPalette),
      MkInput(P1, Ramp(16), 4, FullLen(4), LightB, LightA, <<>>),
      MkInput(P1, RampWithCorruptEntry, 4, FullLen(4), LightA, Null, SpecPalette),
      MkInput(P0, Ramp(16), 4, FullLen(4) - 1, LightA, Null, <<>>) }

HeapInit ==
    /\ Constructed(MkInput(P0, Ramp(3), 4, FullLen(4), LightA, Null, SpecPalette))
    /\ rt = RtIdle
    /\ ev = EvIdle
    /\ \E in \in HeapInputs :
         LET r == HeapCtor(<<>>, in)
         IN  cp = [stage |-> "run", in |-> in, heap |-> r.heap, objs |-> <<r.obj>>,
                   alive |-> <<TRUE>>, outcome |-> <<"none">>, bodyRuns |-> <<0>>,
                   thr |-> [t \in Decoders |-> IdleThread], calls |-> 0, faults |-> {},
                   stack |-> <<>>, asg |-> NoAssignment, got |-> NoPosition,
                   gotAt |-> "none", copied |-> "none"]

\* No thread is in a Parse call on section o.
Exclusive(o) == \A u \in Decoders : cp.thr[u].pc = "idle" \/ cp.thr[u].o # o

\* Thread t calls Parse() on section o while no other call on o is in progress.
ExclusiveParseCall(t, o) ==
    /\ Exclusive(o)
    /\ TParseCall(t, o)

\* At most one thread decodes a given section at a time; two sections can be
\* decoded at the same time.
HeapNext ==
    \/ \E t \in Decoders : \E o \in {Orig, Copy} : ExclusiveParseCall(t, o)
    \/ \E t \in Decoders : TParseStep(t)
    \/ CopyConstruct
    \/ \E o \in {Orig, Copy} : Destroy(o)
    \/ \E o \in {Orig, Copy} : GetPositionCall(o)
    \/ \E a \in {Orig, Copy} : \E b \in {Orig, Copy} : AssignCall(a, b)
    \/ SwapTmp
    \/ SwapAssign

SpecHeap == HeapInit /\ [][HeapNext]_vars

\* Several threads call Parse on the one original section, with nothing
\* that keeps a call from starting while another is in progress.
RaceNext ==
    \/ \E t \in Decoders : TParseCall(t, Orig)
    \/ \E t \in Decoders : TParseStep(t)

SpecRace == HeapInit /\ [][RaceNext]_vars

\* ===================================================== the event system
\* EventSystem and EventListener of src/src/Event.hpp.  The listeners of
\* EventSystem::listeners are 1..NumListeners, in the order of the list.
\* Each listener has its queue of events, its map of handlers and its two
\* mutexes; listenersMutex is the one static mutex.  A mutex is 0 when free
\* and else the thread that owns it: std::mutex is not recursive, and a
\* thread that locks a mutex it owns either blocks for good or ends the
\* process.  A handler is known by what it does when it is called: nothing,
\* RegisterHandler on its own listener, PushEvent or DirectEventCall.

\* ---------------------------------------------------------------- bounds
NumCallers == 2
NumListeners == 2
MaxEventCalls == 2

Callers == 1..NumCallers
Listeners == 1..NumListeners
EventIds == {1, 2}

\* No handler registered for an event id.
Absent == "absent"

\* What a registered handler does when called.
Behaviours == {"nothing", "register", "push", "direct"}

\* What the event system leaves alone.
evFrame == <<rt, cp, sectionVars>>

\* The frame on top of thread t's call stack.
Top(t) == ev.stack[t][Len(ev.stack[t])]

\* Thread t is inside a call of operation op, about to run its statement at.
At(t, op, at) == ev.stack[t] # <<>> /\ Top(t).op = op /\ Top(t).pc = at

\* The frame of a call of PushEvent or DirectEventCall for event id.
EventFrame(op, id, ticket) ==
    [op |-> op, pc |-> "lockListeners", id |-> id, k |-> 0, l |-> 0, beh |-> Absent,
     ticket |-> ticket]

\* The frame of a call of listener l's RegisterHandler(id, beh).
RegisterFrame(l, id, beh) ==
    [op |-> "register", pc |-> "lockHandlers", id |-> id, k |-> 0, l |-> l, beh |-> beh,
     ticket |-> 0]

\* Thread t is idle and every thread before it is inside a call.  The
\* threads are alike, so the one that makes the next call is taken to be the
\* first idle one.
FirstIdle(t) ==
    /\ ev.stack[t] = <<>>
    /\ \A u \in Callers : u < t => ev.stack[u] # <<>>

\* What is kept of the call of PushEvent that is made now for event id: the
\* calls of PushEvent that have returned before it, and the listeners that
\* have a handler for id.
PushRecord(id) ==
    [id |-> id,
     prior |-> ev.done,
     had |-> {l \in Listeners : ev.handlers[l][id] # Absent}]

\* Some thread calls EventSystem::PushEvent(id, data), Event.hpp:98-99; the
\* data is the number of the call among the calls of PushEvent.
PushEventCall(t, id) ==
    /\ ev.stage = "run"
    /\ FirstIdle(t)
    /\ ev.calls < MaxEventCalls
    /\ ev' = [ev EXCEPT !.stack[t] = <<EventFrame("push", id, ev.tickets + 1)>>,
                        !.calls = @ + 1,
                        !.tickets = @ + 1,
                        !.pushes = Append(@, PushRecord(id))]
    /\ UNCHANGED evFrame

\* Some thread calls EventSystem::DirectEventCall(id, data), Event.hpp:114-115
DirectEventCallCall(t, id) ==
    /\ ev.stage = "run"
    /\ FirstIdle(t)
    /\ ev.calls < MaxEventCalls
    /\ ev' = [ev EXCEPT !.stack[t] = <<EventFrame("direct", id, 0)>>, !.calls = @ + 1]
    /\ UNCHANGED evFrame

\* Some thread calls listener l's RegisterHandler(id, handler), Event.hpp:81
RegisterHandlerCall(t, l, id, beh) ==
    /\ ev.stage = "run"
    /\ FirstIdle(t)
    /\ ev.calls < MaxEventCalls
    /\ ev' = [ev EXCEPT !.stack[t] = <<RegisterFrame(l, id, beh)>>, !.calls = @ + 1]
    /\ UNCHANGED evFrame

\* Thread t's call stack with its top frame replaced by f.
SetTop(t, f) == [ev.stack[t] EXCEPT ![Len(ev.stack[t])] = f]

\* The mutex that thread t's next statement locks, if it locks one: "L" is
\* listenersMutex, <<"Q", l>> and <<"H", l>> are listener l's
\* eventsQueueMutex and handlersMutex.
Wanted(t) ==
    IF ev.stack[t] = <<>> THEN "none"
    ELSE IF Top(t).pc = "lockListeners" THEN "L"
    ELSE IF Top(t).pc = "lockQueue" THEN <<"Q", Top(t).k>>
    ELSE IF Top(t).pc = "lockHandlers" /\ Top(t).op = "register" THEN <<"H", Top(t).l>>
    ELSE IF Top(t).pc = "lockHandlers" THEN <<"H", Top(t).k>>
    ELSE "none"

\* The owner of mutex m, 0 when it is free.
Owner(m) ==
    IF m = "L" THEN ev.lm
    ELSE IF m[1] = "Q" THEN ev.qm[m[2]]
    ELSE ev.hm[m[2]]

\* The loop of Event.hpp:102 and :118 goes on after listener k: the two
\* lock_guards of the iteration are gone, and the next listener or the end
\* of the function follows.
NextListener(f) ==
    IF f.k < NumListeners THEN [f EXCEPT !.pc = "lockQueue", !.k = f.k + 1]
    ELSE [f EXCEPT !.pc = "return"]

\* std::lock_guard listenersLock(listenersMutex), Event.hpp:101 and :117
LockListeners(t) ==
    /\ ev.stage = "run"
    /\ ev.stack[t] # <<>>
    /\ Top(t).pc = "lockListeners"
    /\ ev.lm = 0
    /\ ev' = [ev EXCEPT !.lm = t,
                        !.stack[t] = SetTop(t, [Top(t) EXCEPT !.pc = "lockQueue", !.k = 1])]
    /\ UNCHANGED evFrame

\* std::lock_guard lock(listener->eventsQueueMutex), Event.hpp:103 and :119
LockQueue(t) ==
    /\ ev.stage = "run"
    /\ ev.stack[t] # <<>>
    /\ Top(t).pc = "lockQueue"
    /\ ev.qm[Top(t).k] = 0
    /\ ev' = [ev EXCEPT !.qm[Top(t).k] = t,
                        !.stack[t] = SetTop(t, [Top(t) EXCEPT !.pc = "lockHandlers"])]
    /\ UNCHANGED evFrame

\* std::lock_guard lockHandlers(listener->handlersMutex), Event.hpp:104, :120
LockHandlers(t) ==
    /\ ev.stage = "run"
    /\ ev.stack[t] # <<>>
    /\ Top(t).op \in {"push", "direct"}
    /\ Top(t).pc = "lockHandlers"
    /\ ev.hm[Top(t).k] = 0
    /\ ev' = [ev EXCEPT !.hm[Top(t).k] = t,
                        !.stack[t] = SetTop(t, [Top(t) EXCEPT !.pc = "find"])]
    /\ UNCHANGED evFrame

\* handlers.find(eventId) == handlers.end(), Event.hpp:105-106 and :121-122,
\* the other way round
FoundBackwards(handlers, id) == handlers[id] = Absent

\* handlers.find(eventId) != handlers.end(), Event.hpp:105-106 and :121-122
Found(handlers, id) == handlers[id] # Absent

\* The event that a call of PushEvent makes, Event.hpp:99
EventOf(f) == [id |-> f.id, data |-> f.ticket]

\* One iteration of PushEvent's loop under the three locks, Event.hpp:105-110
PushFind(t) ==
    /\ ev.stage = "run"
    /\ At(t, "push", "find")
    /\ LET f == Top(t)
           k == f.k
       IN ev' = [ev EXCEPT
              !.queue[k] = IF Found(ev.handlers[k], f.id) THEN Append(@, EventOf(f)) ELSE @,
              !.hm[k] = 0,
              !.qm[k] = 0,
              !.stack[t] = SetTop(t, NextListener(f))]
    /\ UNCHANGED evFrame

\* The call that a handler of behaviour beh, registered with listener k for
\* event id, makes when it runs; <<>> when it makes none.
HandlerCall(beh, k, id, ticket) ==
    IF beh = "register" THEN <<RegisterFrame(k, id, "nothing")>>
    ELSE IF beh = "registerOther" THEN <<RegisterFrame((k % NumListeners) + 1, id, "nothing")>>
    ELSE IF beh = "push" THEN <<EventFrame("push", id, ticket)>>
    ELSE IF beh = "direct" THEN <<EventFrame("direct", id, 0)>>
    ELSE <<>>

\* One iteration of DirectEventCall's loop up to the handler's call,
\* Event.hpp:121-125: the handler runs on the caller's thread, under
\* listenersMutex and the listener's two mutexes.
DirectFind(t) ==
    /\ ev.stage = "run"
    /\ At(t, "direct", "find")
    /\ LET f == Top(t)
           k == f.k
           beh == ev.handlers[k][f.id]
           call == HandlerCall(beh, k, f.id, ev.tickets + 1)
       IN IF Found(ev.handlers[k], f.id) /\ call # <<>>
          THEN ev' = [ev EXCEPT
                   !.stack[t] = SetTop(t, [f EXCEPT !.pc = "inHandler"]) \o call,
                   !.tickets = IF beh = "push" THEN @ + 1 ELSE @,
                   !.pushes = IF beh = "push" THEN Append(@, PushRecord(f.id)) ELSE @]
          ELSE ev' = [ev EXCEPT
                   !.hm[k] = 0,
                   !.qm[k] = 0,
                   !.stack[t] = SetTop(t, NextListener(f))]
    /\ UNCHANGED evFrame

\* The handler called at Event.hpp:125 has returned: the iteration ends.
HandlerReturn(t) ==
    /\ ev.stage = "run"
    /\ At(t, "direct", "inHandler")
    /\ LET f == Top(t)
       IN ev' = [ev EXCEPT !.hm[f.k] = 0,
                           !.qm[f.k] = 0,
                           !.stack[t] = SetTop(t, NextListener(f))]
    /\ UNCHANGED evFrame

\* PushEvent or DirectEventCall returns, Event.hpp:111 and :127:
\* listenersLock is gone.
EventReturn(t) ==
    /\ ev.stage = "run"
    /\ ev.stack[t] # <<>>
    /\ Top(t).op \in {"push", "direct"}
    /\ Top(t).pc = "return"
    /\ ev' = [ev EXCEPT !.lm = 0,
                        !.done = IF Top(t).op = "push" THEN @ \cup {Top(t).ticket} ELSE @,
                        !.stack[t] = SubSeq(@, 1, Len(@) - 1)]
    /\ UNCHANGED evFrame

\* std::lock_guard lock(handlersMutex) of RegisterHandler, Event.hpp:82
RegisterLock(t) ==
    /\ ev.stage = "run"
    /\ At(t, "register", "lockHandlers")
    /\ ev.hm[Top(t).l] = 0
    /\ ev' = [ev EXCEPT !.hm[Top(t).l] = t,
                        !.stack[t] = SetTop(t, [Top(t) EXCEPT !.pc = "store"])]
    /\ UNCHANGED evFrame

\* handlers[eventId] = data and the return of RegisterHandler, Event.hpp:83-84
RegisterStore(t) ==
    /\ ev.stage = "run"
    /\ At(t, "register", "store")
    /\ ev' = [ev EXCEPT !.handlers[Top(t).l][Top(t).id] = Top(t).beh,
                        !.hm[Top(t).l] = 0,
                        !.stack[t] = SubSeq(@, 1, Len(@) - 1)]
    /\ UNCHANGED evFrame

\* Thread t is about to lock a mutex that it owns.
Relocks(t) == Wanted(t) # "none" /\ Owner(Wanted(t)) = t

\* Locking a std::mutex that the thread owns is undefined: the thread
\* blocks for good, which is no step at all, or the library finds the
\* deadlock and the process ends, which is this step.
RelockAbort(t) ==
    /\ ev.stage = "run"
    /\ Relocks(t)
    /\ ev' = [ev EXCEPT !.stage = "aborted"]
    /\ UNCHANGED evFrame

\* The handlers that the listeners start with: listener 1 handles event 1
\* in one of the ways a handler can behave, and listener 2 handles event 2
\* or none.
InitialHandlers ==
    {[l \in Listeners |->
        [id \in EventIds |->
            IF l = 1 /\ id = 1 THEN b1
            ELSE IF l = 2 /\ id = 2 THEN b2
            ELSE Absent]] :
     b1 \in Behaviours \cup {"registerOther"}, b2 \in {Absent, "nothing"}}

\* The event system with its listeners constructed and no call under way.
EventInit ==
    /\ \E h \in InitialHandlers :
          ev = [stage |-> "run",
                lm |-> 0,
                qm |-> [l \in Listeners |-> 0],
                hm |-> [l \in Listeners |-> 0],
                handlers |-> h,
                queue |-> [l \in Listeners |-> <<>>],
                stack |-> [t \in Callers |-> <<>>],
                calls |-> 0,
                tickets |-> 0,
                pushes |-> <<>>,
                done |-> {}]
    /\ cp = CpIdle
    /\ rt = RtIdle
    /\ Constructed(MkInput(P0, Ramp(3), 4, FullLen(4), LightA, Null, SpecPalette))

EventNext ==
    \/ \E t \in Callers, id \in EventIds : PushEventCall(t, id)
    \/ \E t \in Callers, id \in EventIds : DirectEventCallCall(t, id)
    \/ \E t \in Callers, l \in Listeners, id \in EventIds :
          RegisterHandlerCall(t, l, id, "nothing")
    \/ \E t \in Callers : LockListeners(t)
    \/ \E t \in Callers : LockQueue(t)
    \/ \E t \in Callers : LockHandlers(t)
    \/ \E t \in Callers : PushFind(t)
    \/ \E t \in Callers : DirectFind(t)
    \/ \E t \in Callers : HandlerReturn(t)
    \/ \E t \in Callers : EventReturn(t)
    \/ \E t \in Callers : RegisterLock(t)
    \/ \E t \in Callers : RegisterStore(t)
    \/ \E t \in Callers : RelockAbort(t)

SpecEvents == EventInit /\ [][EventNext]_vars

\* ================================================================ claims
\* The entries Parse unpacks from the constructor's buffer on its first call.
DecodedIndices(in) ==
    UnpackBlocks(EndswapBuffer(in.dataBlocks, in.dataBlocksLength), in.dataBlocksLength,
                 in.bitsPerBlock)

\* Entry k (from 0) of the unpacked entries d exists and resolves to a
\* global identifier through palette.
Resolvable(d, palette, k) ==
    /\ k < Len(d)
    /\ Len(palette) > 0 => d[k + 1] < Len(palette)

\* The resolved global identifier g of entry k: palette[i] or i itself.
GlobalId(d, palette, k) == IF Len(palette) > 0 THEN palette[d[k + 1] + 1] ELSE d[k + 1]

\* Some entry among the first Volume is no index of the non-empty palette.
PaletteCorrupt(in) ==
    LET d == DecodedIndices(in)
    IN  /\ Len(in.palette) > 0
        /\ \E k \in 0..(Volume - 1) : k < Len(d) /\ d[k + 1] >= Len(in.palette)

\* A Parse call has run to its end and returned normally.
ParseCompleted == outcome \in {"ok", "noop"}

\* The last Parse call ended by throwing.
ParseFailed == pcD = "idle" /\ outcome = "threw"

\* Reader r is inside a GetBlock call.
InGetBlock(r) == pc[r] # "idle"

\* C1: once Parse has completed successfully, every GetBlock call that is
\* in progress eventually returns; none stays suspended forever.
C1_LookupsEventuallyReturn ==
    \A r \in Readers : (ParseCompleted /\ InGetBlock(r)) ~> (pc[r] = "idle")

\* C2: whenever a GetBlock call is at its return step, where it reads the
\* voxel array, the array holds all Volume voxels and Parse is past its
\* writes of the array.
C2_NoPartialRead ==
    \A r \in Readers :
        pc[r] = "L45" =>
            /\ Len(section.m_blocks) = Volume
            /\ pcD \in {"idle", "L49", "L94", "L99"}

\* C2 witness: a lookup is at its return step while Parse has not returned yet.
C2_Witness == \E r \in Readers : pc[r] = "L45" /\ pcD \in {"L94", "L99"}

\* C3: in every state after construction exactly one of "the raw block
\* buffer is present" and "the voxel array is non-empty" holds.
C3_PendingXorDecoded ==
    (section.m_dataBlocks # Null) # (Len(section.m_blocks) > 0)

\* C4: once a Parse call has completed, no later step (of a further Parse
\* call in particular) changes any member of the section, and the section
\* is not pending again.
C4_SecondParseNoOp ==
    [][ParseCompleted => (section' = section /\ ~StillPending(section'))]_vars

\* C4 witness: a second Parse call has run on a decoded section and returned.
C4_Witness == parseCalls >= 2 /\ pcD = "idle" /\ outcome = "noop"

\* C5: when Parse ends by throwing, the voxel array is as the call found it,
\* and the voxel array never has a size other than 0 or Volume.
C5_FailureAllOrNothing ==
    /\ ParseFailed => section.m_blocks = entryBlocks
    /\ Len(section.m_blocks) \in {0, Volume} \/ pcD = "L83"

\* C6: once Parse has ended in failure, every GetBlock call in progress
\* eventually ends; none waits forever.
C6_NoReaderStrandedAfterFailure ==
    \A r \in Readers : (ParseFailed /\ InGetBlock(r)) ~> (pc[r] = "idle")

\* C7: Parse never reads the palette outside [0, size), and with a corrupt
\* palette index among the first Volume entries Parse does not complete.
C7_PaletteCorruptionDetected ==
    /\ ~oobPalette
    /\ PaletteCorrupt(input) => ~ParseCompleted

\* C8: Parse runs its bit extraction only on a section whose buffer length
\* is a multiple of 8 and whose bitsPerBlock is at least 1, because no other
\* section is ever constructed.
C8_ExtractionOnlyOnValidInput ==
    pcD = "L55" => (section.m_dataBlocksLen % WordBytes = 0 /\ section.m_bitsPerBlock >= 1)

\* C9: packing Volume entries of bpb bits and running the unpacking loop on
\* the packed bytes gives back the entries, for every width of RtWidths.
C9_RoundTrip ==
    rt.stage = "unpacked" => SubSeq(rt.out, 1, Volume) = rt.vals

\* C10: once Parse has completed, a GetBlock call does not wait (from its
\* check at line 36 it goes to its return), and for every position p the
\* voxel read at p, and the voxel a call returns, has typeId g >> 4 and
\* auxState g & 0xF, g the resolved identifier of entry y*Layer + z*Row + x.
C10_VoxelAt(d, p, b) ==
    Resolvable(d, input.palette, p.y * Layer + p.z * Row + p.x) =>
        /\ b.id = GlobalId(d, input.palette, p.y * Layer + p.z * Row + p.x) \div 16
        /\ b.state = GlobalId(d, input.palette, p.y * Layer + p.z * Row + p.x) % 16

C10_LookupAfterDecode ==
    /\ [](ParseCompleted =>
            LET d == DecodedIndices(input)
            IN  \A p \in Positions : \A b \in ReadVoxel(section, p) : C10_VoxelAt(d, p, b))
    /\ [][ParseCompleted =>
            \A r \in Readers :
                /\ pc[r] = "L36" => pc'[r] \in {"L36", "L45"}
                /\ (pc[r] = "L45" /\ pc'[r] = "idle") =>
                       C10_VoxelAt(DecodedIndices(input), pos[r], ret'[r])]_vars

\* C10 witness: after Parse completed, a lookup at the last position of a
\* section with a palette has returned a voxel of a type other than 0.
C10_Witness ==
    /\ ParseCompleted
    /\ \E r \in Readers : pc[r] = "idle" /\ pos[r] = P2 /\ ret[r] # NoBlock /\ ret[r].id > 0

\* The decoding thread is past the light unpacker and the vector light lives.
LightUnpacked == pcD \in {"L83", "L88", "L91", "L94", "L99"}

\* C11 (as the code has it): the light unpacker emits two bytes per input
\* byte b, 2 * LightBytes in all: first the high nibble of b in the high
\* position, then the high nibble of b in the low position (b >> 4), so that
\* 0xAB yields (0xA0, 0x0A).
C11_LightPairs ==
    LightUnpacked =>
        /\ Len(light) = 2 * LightBytes
        /\ \A k \in 1..LightBytes :
              /\ light[2 * k - 1] = 16 * (input.dataLight[k] \div 16)
              /\ light[2 * k] = input.dataLight[k] \div 16
        /\ \A k \in 1..LightBytes :
              input.dataLight[k] = 171 => (light[2 * k - 1] = 160 /\ light[2 * k] = 10)

\* C11 witness: a light buffer whose first byte is 0xAB has been unpacked.
C11_Witness ==
    LightUnpacked /\ input.dataLight[1] = 171 /\ light[1] = 160 /\ light[2] = 10

\* C11 as stated: the second byte of each pair is the low nibble of b
\* shifted into the high position, so that 0xAB yields (0xA0, 0xB0).
C11_LowNibbleShiftedHigh ==
    LightUnpacked =>
        /\ Len(light) = 2 * LightBytes
        /\ \A k \in 1..LightBytes :
              /\ light[2 * k - 1] = 16 * (input.dataLight[k] \div 16)
              /\ light[2 * k] = 16 * (input.dataLight[k] % 16)

\* The copy exists next to the original and no Parse call was made on it.
FreshCopy ==
    /\ cp.stage = "run"
    /\ Len(cp.objs) >= 2
    /\ cp.alive[Orig] /\ cp.alive[Copy]
    /\ cp.bodyRuns[Copy] = 0
    /\ cp.outcome[Copy] = "none"

\* C12: the copy of a section on which Parse has completed is decoded (it
\* has no raw block buffer, so that GetBlock on it does not wait) and its
\* voxel array has Volume entries, equal one by one to the original's.
C12_CopyOfDecodedIsDecoded ==
    (FreshCopy /\ cp.copied = "decoded") =>
        /\ cp.objs[Copy].m_dataBlocks = NullPtr
        /\ Len(cp.objs[Copy].m_blocks) = Volume
        /\ cp.objs[Copy].m_blocks = cp.objs[Orig].m_blocks

\* The bytes behind a pointer: Null for nullptr, Freed for a freed buffer.
Deref(h, p) == IF p = NullPtr THEN Null ELSE h[p]

\* The raw side of section o in c: its buffers by content, palette and width.
Raw(c, o) ==
    [blocks |-> Deref(c.heap, c.objs[o].m_dataBlocks),
     len |-> c.objs[o].m_dataBlocksLen,
     light |-> Deref(c.heap, c.objs[o].m_dataLight),
     sky |-> Deref(c.heap, c.objs[o].m_dataSkyLight),
     palette |-> c.objs[o].m_palette,
     bits |-> c.objs[o].m_bitsPerBlock]

\* All of section o in c that a caller can observe.
View(c, o) ==
    [raw |-> Raw(c, o), voxels |-> c.objs[o].m_blocks,
     position |-> c.objs[o].worldPosition, outcome |-> c.outcome[o]]

\* The section a step of thread t belongs to, 0 when t takes no step.
ActsOn(t) ==
    IF cp'.thr[t] = cp.thr[t] THEN 0
    ELSE IF cp.thr[t].o # 0 THEN cp.thr[t].o ELSE cp'.thr[t].o

\* C13 (a): the step that copy-constructs from a pending section leaves the
\* copy with raw buffers, palette and width equal to the original's.
C13_CopyEqualsOriginal ==
    (cp.stage = "run" /\ Len(cp.objs) = 1 /\ cp'.stage = "run" /\ Len(cp'.objs) = 2
        /\ cp'.copied = "pending")
    => Raw(cp', Copy) = Raw(cp, Orig)

\* C13 (b): a step of Parse on one of the two sections, and the destruction
\* of one, leaves everything of the other section unchanged.
C13_OtherUntouched ==
    (cp.stage = "run" /\ Len(cp.objs) = 2 /\ Len(cp'.objs) = 2 /\ cp.copied = "pending")
    => \A o \in {Orig, Copy} :
         ((\E t \in Decoders : ActsOn(t) = o) \/ (cp.alive[o] /\ ~cp'.alive[o]))
         => View(cp', 3 - o) = View(cp, 3 - o)

\* C13 (c): when Parse has completed on both, the voxel arrays are identical.
C13_SameDecodeResult ==
    (cp.stage = "run" /\ Len(cp.objs) >= 2 /\ cp.copied = "pending"
        /\ cp.outcome[Orig] = "ok" /\ cp.outcome[Copy] = "ok")
    => cp.objs[Orig].m_blocks = cp.objs[Copy].m_blocks

\* C13: copying a pending section gives a copy whose raw buffers, palette
\* and bitsPerBlock equal the original's; a later Parse or destruction of
\* one of the two leaves the other unchanged; and decoding both yields
\* identical voxel arrays.
C13_PendingCopyIndependent ==
    /\ []C13_SameDecodeResult
    /\ [][C13_CopyEqualsOriginal /\ C13_OtherUntouched]_vars

\* The number of entries the bit unpacker emits for the constructor's
\* buffer: floor(8 * rawBlockLength / bitsPerEntry).
EntryCount(in) == (8 * in.dataBlocksLength) \div in.bitsPerBlock

\* A Parse call has been made and has ended, by a return or by a throw.
ParseEnded == pcD = "idle" /\ outcome # "none"

\* C14: when the buffer yields fewer than Volume entries, Parse never reads
\* the vector of unpacked entries at or past its size, every Parse call that
\* ends ends by throwing, and the section never leaves the pending state.
C14_ShortInputFails ==
    EntryCount(input) < Volume =>
        /\ ~oobBlocks
        /\ pcD # "crashed"
        /\ ParseEnded => outcome = "threw"
        /\ StillPending(section)

\* C15: when the buffer yields at least Volume entries, every Parse call that
\* ends has completed, and the voxel array is then made of the first Volume
\* entries, each resolved through the palette.
C15_LeftoverIgnored ==
    (EntryCount(input) >= Volume /\ ParseEnded) =>
        /\ ParseCompleted
        /\ Len(section.m_blocks) = Volume
        /\ LET d == DecodedIndices(input)
           IN  \A k \in 0..(Volume - 1) :
                 Resolvable(d, input.palette, k) =>
                     section.m_blocks[k + 1] = MakeBlock(GlobalId(d, input.palette, k))

\* C16: however the Parse calls of several threads on the one section
\* interleave, the decode body (past the check of line 49) is entered at
\* most once, the voxel array never holds more than Volume entries, and no
\* buffer is freed twice.
C16_OneDecode ==
    cp.stage # "idle" =>
        /\ cp.bodyRuns[Orig] <= 1
        /\ Len(cp.objs[Orig].m_blocks) <= Volume
        /\ "doubleDelete" \notin cp.faults

\* The members of section o that are fixed at construction.
Fixed(c, o) ==
    [position |-> c.objs[o].worldPosition, palette |-> c.objs[o].m_palette,
     bits |-> c.objs[o].m_bitsPerBlock]

\* C17: no step of a Parse call (ending in success, in a throw or at the
\* check of line 49), and no other step, changes the position, the palette
\* or bitsPerBlock of a section; and GetPosition, called in whatever decode
\* state (pending, mid-decode, decoded), returns in one step the position
\* the section was constructed with.
C17_DecodeFrame ==
    /\ [](cp.stage # "idle" =>
            /\ cp.got \in {NoPosition, cp.in.position}
            /\ \A o \in 1..Len(cp.objs) :
                 Fixed(cp, o) = [position |-> cp.in.position, palette |-> cp.in.palette,
                                 bits |-> cp.in.bitsPerBlock])
    /\ [][(cp.stage # "idle" /\ cp'.stage # "idle") =>
            \A o \in 1..Len(cp.objs) : Fixed(cp', o) = Fixed(cp, o)]_vars

\* C17 witness: GetPosition was called on a section in the middle of its
\* decode and returned the position of construction, and a Parse call on a
\* section with a palette has since completed.
C17_Witness ==
    /\ cp.stage = "run"
    /\ cp.gotAt = "mid-decode"
    /\ cp.got = cp.in.position
    /\ cp.outcome[Orig] = "ok"
    /\ Len(cp.objs[Orig].m_palette) > 0
    /\ ~PaletteCorrupt(cp.in)

\* C18: an assignment between two sections returns: the calls of operator=
\* it makes never use up the stack.  (On return the left side would hold the
\* right side's position, buffers or voxel array, palette and bitsPerBlock;
\* no call of operator= reaches its return.)
C18_AssignmentReturns ==
    (cp.stage # "idle" /\ cp.asg # NoAssignment) => cp.stage # "stackOverflow"

\* Thread t is inside a call and can take its next step.
CanStep(t) ==
    /\ ev.stack[t] # <<>>
    /\ Wanted(t) # "none" => Owner(Wanted(t)) = 0

\* C19: the event system is free of deadlock, handlers that call back
\* included: no thread is ever about to lock a mutex that it owns itself (as
\* a handler does that calls RegisterHandler on its own listener, PushEvent
\* or DirectEventCall), the process is never ended for it, and whenever
\* some thread is inside a call, some thread inside a call can go on.
C19_NoDeadlock ==
    ev.stage # "idle" =>
        /\ ev.stage # "aborted"
        /\ \A t \in Callers : ~Relocks(t)
        /\ (\E t \in Callers : ev.stack[t] # <<>>) => (\E t \in Callers : CanStep(t))

\* How often the event of push number n is in listener l's queue.
Copies20(l, n) == Cardinality({a \in 1..Len(ev.queue[l]) : ev.queue[l][a].data = n})

\* Every event in a queue has the id of its push; a push that has returned
\* has left one event with every listener that had a handler for the id
\* when it was called, and none with a listener that has no such handler
\* (handlers are never taken away); and no event stands before the event
\* of a push that had returned before its own push was called.
QueuesInPushOrder ==
    \A l \in Listeners :
        /\ \A a \in 1..Len(ev.queue[l]) :
              /\ ev.queue[l][a].data \in 1..Len(ev.pushes)
              /\ ev.queue[l][a].id = ev.pushes[ev.queue[l][a].data].id
        /\ \A n \in 1..Len(ev.pushes) :
              /\ Copies20(l, n) <= 1
              /\ (n \in ev.done /\ l \in ev.pushes[n].had) => Copies20(l, n) = 1
              /\ ev.handlers[l][ev.pushes[n].id] = Absent => Copies20(l, n) = 0
        /\ \A a, b \in 1..Len(ev.queue[l]) :
              a < b => ev.queue[l][b].data \notin ev.pushes[ev.queue[l][a].data].prior

\* Thread t's call of PushEvent deals with listener l in this step.
PushStepOn(t, l) ==
    /\ At(t, "push", "find")
    /\ Top(t).k = l
    /\ ev'.stack[t] # ev.stack[t]

\* A step changes listener l's queue only when a call of PushEvent deals
\* with l and l has a handler for the event's id just then, and it appends
\* that one event.
DeliversSelectively ==
    \A l \in Listeners :
        IF \E t \in Callers : PushStepOn(t, l) /\ ev.handlers[l][Top(t).id] # Absent
        THEN \E t \in Callers :
                /\ PushStepOn(t, l)
                /\ ev'.queue[l] = Append(ev.queue[l], [id |-> Top(t).id, data |-> Top(t).ticket])
        ELSE ev'.queue[l] = ev.queue[l]

\* C20: PushEvent(id, data) appends one event with that id to the queue of
\* each listener that has a handler for id when the call reaches it and
\* leaves every other queue as it is, and each queue holds its events in
\* the order of the pushes.
C20_SelectiveOrderedDelivery ==
    /\ [](ev.stage # "idle" => QueuesInPushOrder)
    /\ [][ev.stage # "idle" => DeliversSelectively]_vars

\* Two calls of PushEvent have returned; one listener took the events of
\* both, in their order, and another listener took less.
C20_Witness ==
    /\ ev.stage = "run"
    /\ Cardinality(ev.done) >= 2
    /\ \E l, m \in Listeners :
          /\ Len(ev.queue[l]) = 2
          /\ ev.queue[l][1].data < ev.queue[l][2].data
          /\ {ev.queue[l][1].data, ev.queue[l][2].data} \subseteq ev.done
          /\ Len(ev.queue[m]) < 2


====
